---- MODULE Spec2Model ----
(***************************************************************************)
(* A model of netplan-ebs: the netplan configuration parser                *)
(* (netplan/parser.py) and the netplan-parser command-line tool            *)
(* (bin/netplan-parser.py).                                                *)
(*                                                                         *)
(* Python values are modelled as tagged pairs <<tag, payload>>:            *)
(*   <<"int", n>>, <<"str", s>>, <<"none", 0>>,                            *)
(*   <<"list", sequence of values>>, <<"dict", function key -> value>>.    *)
(* A raised exception is the pair <<"raise", reason>>.                     *)
(***************************************************************************)
EXTENDS Integers, Sequences, FiniteSets, TLC

VARIABLES
    \* _combine_dicts on its own
    heap0, heap, cur, new, raised, mpc,
    \* the file system and Parser.find_files
    dirs, fs, found, fpc,
    \* Parser.parse
    content, exclude, opened, raw, order, result, status, errfile, errinner, errstage, ppc,
    \* the command-line queries
    plan, qcmd, qargs, qstatus, qmessage, qselected, closures, qpc

mergeVars == <<heap0, heap, cur, new, raised, mpc>>
findVars  == <<dirs, fs, found, fpc>>
parseVars == <<content, exclude, opened, raw, order, result, status, errfile, errinner, errstage, ppc>>
queryVars == <<plan, qcmd, qargs, qstatus, qmessage, qselected, closures, qpc>>
vars == <<mergeVars, findVars, parseVars, queryVars>>

-----------------------------------------------------------------------------
(* Python values *)

PyInt(n)   == <<"int", n>>
PyStr(s)   == <<"str", s>>
PyNone     == <<"none", 0>>
PyList(s)  == <<"list", s>>
PyDict(f)  == <<"dict", f>>
Raise(r) == <<"raise", r>>

IsList(v)   == v[1] = "list"
IsDict(v)   == v[1] = "dict"
IsRaise(v)  == v[1] = "raise"
IsScalar(v) == v[1] \in {"int", "str", "none"}

Keys(d)   == DOMAIN d[2]
Has(d, k) == IsDict(d) /\ k \in Keys(d)
Get(d, k) == d[2][k]

\* dict.get(key): PyNone when the key is absent
DictGet(d, k) == IF k \in Keys(d) THEN Get(d, k) ELSE PyNone

\* del d[key]
DictDel(d, k) == PyDict([x \in Keys(d) \ {k} |-> Get(d, x)])

EmptyDict == PyDict(<<>>)

\* all the dictionaries over a subset of the keys ks with values in vs
DictsOver(ks, vs) == {PyDict(f) : f \in UNION {[S -> vs] : S \in SUBSET ks}}

\* the elements of a sequence, the values of a function
Range(s) == {s[i] : i \in DOMAIN s}

\* all the sequences over S of length at most n
SeqsUpTo(S, n) == UNION {[1..k -> S] : k \in 0..n}

-----------------------------------------------------------------------------
(* Parser._combine_dicts *)

\* _combine_dicts(cur, new): the value of cur afterwards, or the exception
\* raised.  new is always a dictionary; cur is one at the top level, and
\* whatever the accumulator holds under the key in a recursive call.
\*   - cur is not a dictionary: with new empty the loop body never runs;
\*     otherwise "key not in cur", "cur[key]" or "cur[key] = value" raises
\*     TypeError whatever the first key is;
\*   - list.extend exists on lists only: AttributeError on anything else.
RECURSIVE CombineDicts(_, _)
CombineDicts(c, n) ==
    IF ~IsDict(c)
    THEN IF Keys(n) = {} THEN c ELSE Raise("TypeError")
    ELSE LET item(k) ==
                 IF k \notin Keys(n) THEN Get(c, k)
                 ELSE IF k \notin Keys(c) THEN Get(n, k)
                 ELSE IF IsList(Get(n, k))
                      THEN IF IsList(Get(c, k))
                           THEN PyList(Get(c, k)[2] \o Get(n, k)[2])
                           ELSE Raise("AttributeError")
                 ELSE IF IsDict(Get(n, k))
                      THEN CombineDicts(Get(c, k), Get(n, k))
                 ELSE Get(n, k)
             items == [k \in Keys(c) \cup Keys(n) |-> item(k)]
         IN  IF \E k \in DOMAIN items : IsRaise(items[k])
             THEN (CHOOSE r \in Range(items) : IsRaise(r))
             ELSE PyDict(items)

-----------------------------------------------------------------------------
(* The documents _combine_dicts is applied to on its own *)

MaxListLen == 1
MaxDepth == 2

MergeScalars == {PyInt(1), PyInt(2), PyNone}

MergeLeaves ==
    MergeScalars \cup {PyList(s) : s \in SeqsUpTo({PyInt(1), PyInt(2)}, MaxListLen)}

\* the innermost dictionaries have two keys, the ones around them one
KeysAt(d) == IF d = 1 THEN {"a", "b"} ELSE {"n"}

RECURSIVE MergeValues(_)
MergeValues(d) ==
    IF d = 0 THEN MergeLeaves
    ELSE MergeLeaves \cup DictsOver(KeysAt(d), MergeValues(d - 1))

MergeDocs == DictsOver(KeysAt(MaxDepth), MergeValues(MaxDepth - 1))

-----------------------------------------------------------------------------
(* Parser._combine_dicts on the objects themselves.                        *)
(*                                                                         *)
(* A list and a dictionary are objects of a heap, and a value is a scalar  *)
(* or the reference <<"ref", address>> of an object: cur[key] = value      *)
(* stores a reference, and cur[key].extend(value) changes the list object  *)
(* in place, for every reference to it.  yaml.load makes one object of a   *)
(* node and of all its aliases ("a: &x [1]", "b: *x").                     *)

Ref(a)   == <<"ref", a>>
IsRef(v) == v[1] = "ref"
IsListRef(h, v) == IsRef(v) /\ IsList(h[v[2]])
IsDictRef(h, v) == IsRef(v) /\ IsDict(h[v[2]])

\* the value a reference stands for, as a document
RECURSIVE View(_, _)
View(h, v) ==
    IF ~IsRef(v) THEN v
    ELSE LET o == h[v[2]]
         IN  IF IsList(o) THEN PyList([i \in DOMAIN o[2] |-> View(h, o[2][i])])
             ELSE PyDict([k \in DOMAIN o[2] |-> View(h, o[2][k])])

\* the keys of the documents below, in the order of the document
KeyOrder == <<"a", "b", "n">>
Items(o) == SelectSeq(KeyOrder, LAMBDA k : k \in Keys(o))

\* cur[key] = value
SetItem(h, c, k, value) ==
    [h EXCEPT ![c] = PyDict([x \in Keys(h[c]) \cup {k} |->
                                 IF x = k THEN value ELSE Get(h[c], x)])]

\* the list at the address l extended by the elements of the list at m
Extend(h, l, m) == [h EXCEPT ![l] = PyList(h[l][2] \o h[m][2])]

\* _combine_dicts(cur, new) from the key Head(ks) of new on: st holds the
\* heap and the exception raised, if any; c is the value of cur and n the
\* address of new
RECURSIVE CombineDictsInPlace(_, _, _, _)
CombineDictsInPlace(st, c, n, ks) ==
    IF st.exc # "none" \/ ks = <<>> THEN st
    ELSE LET h == st.h
             key == Head(ks)
             value == Get(h[n], key)
             this ==
                 IF ~IsDictRef(h, c) THEN [st EXCEPT !.exc = "TypeError"]
                 ELSE IF key \notin Keys(h[c[2]])
                 THEN [st EXCEPT !.h = SetItem(h, c[2], key, value)]
                 ELSE IF IsListRef(h, value)
                 THEN IF IsListRef(h, Get(h[c[2]], key))
                      THEN [st EXCEPT !.h = Extend(h, Get(h[c[2]], key)[2], value[2])]
                      ELSE [st EXCEPT !.exc = "AttributeError"]
                 ELSE IF IsDictRef(h, value)
                 THEN CombineDictsInPlace(st, Get(h[c[2]], key), value[2],
                                          Items(h[value[2]]))
                 ELSE [st EXCEPT !.h = SetItem(h, c[2], key, value)]
         IN  CombineDictsInPlace(this, c, n, Tail(ks))

\* the objects yaml.load makes of the document doc, the one of the root at
\* the address at, the others at the addresses of their places below it;
\* with anchors, "b" is an alias of "a" wherever the two hold equal lists or
\* equal dictionaries
RECURSIVE Objects(_, _, _)
Objects(doc, at, anchors) ==
    IF IsList(doc) THEN at :> doc
    ELSE LET alias(k) ==
                 /\ anchors
                 /\ k = "b"
                 /\ "a" \in Keys(doc)
                 /\ Get(doc, "a") = Get(doc, "b")
             below == {k \in Keys(doc) : ~IsScalar(Get(doc, k)) /\ ~alias(k)}
             item(k) ==
                 IF IsScalar(Get(doc, k)) THEN Get(doc, k)
                 ELSE IF alias(k) THEN Ref(Append(at, "a"))
                 ELSE Ref(Append(at, k))
             RECURSIVE all(_)
             all(S) ==
                 IF S = {} THEN <<>>
                 ELSE LET k == CHOOSE x \in S : TRUE
                      IN  Objects(Get(doc, k), Append(at, k), anchors) @@ all(S \ {k})
         IN  (at :> PyDict([k \in Keys(doc) |-> item(k)])) @@ all(below)

IdleMerge ==
    /\ heap0 = <<>>
    /\ heap = <<>>
    /\ cur = PyNone
    /\ new = PyNone
    /\ raised = "none"
    /\ mpc = "idle"

InitMerge ==
    /\ \E a, b \in MergeDocs : \E anchors \in BOOLEAN :
          heap0 = Objects(a, <<"cur">>, anchors) @@ Objects(b, <<"new">>, FALSE)
    /\ heap = heap0
    /\ cur = Ref(<<"cur">>)
    /\ new = Ref(<<"new">>)
    /\ raised = "none"
    /\ mpc = "call"

\* self._combine_dicts(cur, new)
CombineDictsCall ==
    /\ mpc = "call"
    /\ LET st == CombineDictsInPlace([h |-> heap, exc |-> "none"], cur, new[2],
                                     Items(heap[new[2]]))
       IN  /\ heap' = st.h
           /\ raised' = st.exc
    /\ mpc' = "done"
    /\ UNCHANGED <<heap0, cur, new>>

-----------------------------------------------------------------------------
(* File names and paths: strings as sequences of character codes *)

\* '.yaml'
YamlSuffix == <<46, 121, 97, 109, 108>>

\* the directory separator '/'
Sep == <<47>>

\* str.endswith
EndsWith(s, suf) ==
    /\ Len(s) >= Len(suf)
    /\ SubSeq(s, Len(s) - Len(suf) + 1, Len(s)) = suf

\* os.path.join(d, f)
Join(d, f) ==
    IF Len(f) > 0 /\ f[1] = Sep[1] THEN f
    ELSE IF d = <<>> \/ d[Len(d)] = Sep[1] THEN d \o f
    ELSE d \o Sep \o f

\* the index of the last '/' of a path, 0 when there is none
LastSep(p) ==
    LET at == {i \in 1..Len(p) : p[i] = Sep[1]}
    IN  IF at = {} THEN 0 ELSE CHOOSE i \in at : \A j \in at : j <= i

\* os.path.basename(p)
Basename(p) == SubSeq(p, LastSep(p) + 1, Len(p))

\* os.path.dirname(p), for a path below a directory other than the root
Dirname(p) == SubSeq(p, 1, LastSep(p) - 1)

\* a < b for two strings: the first differing character decides, a proper
\* prefix sorts first
LexLess(a, b) ==
    \/ /\ Len(a) < Len(b)
       /\ SubSeq(b, 1, Len(a)) = a
    \/ \E i \in 1..Len(a) :
          /\ i <= Len(b)
          /\ SubSeq(a, 1, i - 1) = SubSeq(b, 1, i - 1)
          /\ a[i] < b[i]

\* sorted(S) for a set of strings
RECURSIVE Sorted(_)
Sorted(S) ==
    IF S = {} THEN <<>>
    ELSE LET m == CHOOSE x \in S : \A y \in S : x = y \/ LexLess(x, y)
         IN  <<m>> \o Sorted(S \ {m})

-----------------------------------------------------------------------------
(* The file system: fs maps each existing path to "dir" or "file" *)

\* os.path.isdir, os.path.isfile
IsDir(f, p)  == p \in DOMAIN f /\ f[p] = "dir"
IsFile(f, p) == p \in DOMAIN f /\ f[p] = "file"

\* os.listdir(d)
ListDir(f, d) == {Basename(p) : p \in {q \in DOMAIN f : LastSep(q) > 1 /\ Dirname(q) = d}}

-----------------------------------------------------------------------------
(* Parser.find_files *)

\* the (name, path) pairs of one directory, as a dictionary
DirEntries(f, d) ==
    [n \in {x \in ListDir(f, d) : EndsWith(x, YamlSuffix) /\ IsFile(f, Join(d, x))}
        |-> Join(d, n)]

\* dict(itertools.chain(...)): a later pair replaces an earlier one of the
\* same key
RECURSIVE FilesDict(_, _, _)
FilesDict(f, ds, acc) ==
    IF ds = <<>> THEN acc
    ELSE FilesDict(f, Tail(ds), DirEntries(f, Head(ds)) @@ acc)

\* the same, but the first directory that has the name wins
RECURSIVE FilesDictFirst(_, _, _)
FilesDictFirst(f, ds, acc) ==
    IF ds = <<>> THEN acc
    ELSE FilesDictFirst(f, Tail(ds), acc @@ DirEntries(f, Head(ds)))

FindFilesFirstWins(ds, f) ==
    LET files == FilesDictFirst(f, SelectSeq(ds, LAMBDA d : IsDir(f, d)), <<>>)
        names == Sorted(DOMAIN files)
    IN  [i \in 1..Len(names) |-> files[names[i]]]

\* find_files() of a Parser over the directories ds
FindFiles(ds, f) ==
    LET files == FilesDict(f, SelectSeq(ds, LAMBDA d : IsDir(f, d)), <<>>)
        names == Sorted(DOMAIN files)
    IN  [i \in 1..Len(names) |-> files[names[i]]]

-----------------------------------------------------------------------------
(* The file systems find_files is applied to on its own *)

MaxDirs == 2

\* '/l' and '/e'
FindDirs == {<<47, 108>>, <<47, 101>>}

\* 'a.yaml', 'b.yaml' and 'c.yml'
FindNames == {<<97>> \o YamlSuffix, <<98>> \o YamlSuffix, <<99, 46, 121, 109, 108>>}

FsKinds == {"absent", "file", "dir"}

\* the file system in which the directory d is of kind dk[d] and its entry n
\* of kind ent[d, n]
MkFs(ds, ns, dk, ent) ==
    LET below == {<<d, n>> \in ds \X ns : dk[d] = "dir" /\ ent[<<d, n>>] # "absent"}
        paths == {d \in ds : dk[d] # "absent"} \cup {Join(x[1], x[2]) : x \in below}
    IN  [p \in paths |->
            IF p \in ds THEN dk[p]
            ELSE ent[CHOOSE x \in below : Join(x[1], x[2]) = p]]

FindFileSystems ==
    {MkFs(FindDirs, FindNames, dk, ent) :
        dk \in [FindDirs -> FsKinds], ent \in [FindDirs \X FindNames -> FsKinds]}

IdleFind ==
    /\ dirs = <<>>
    /\ fs = <<>>
    /\ found = <<>>
    /\ fpc = "idle"

InitFind ==
    /\ dirs \in SeqsUpTo(FindDirs, MaxDirs)
    /\ fs \in FindFileSystems
    /\ found = <<>>
    /\ fpc = "call"

\* Parser(dirs).find_files()
FindFilesCall ==
    /\ fpc = "call"
    /\ found' = FindFiles(dirs, fs)
    /\ fpc' = "done"
    /\ UNCHANGED <<dirs, fs>>

-----------------------------------------------------------------------------
(* Parser._combine_files *)

\* the strings of the model that get sorted, in the order of Python's str
StrOrder ==
    <<"bonds", "br0", "bridges", "eth0", "ethernets", "nope", "tunnels",
      "version", "vlan10", "vlans", "wifis", "wlan0", "zones">>

\* sorted(S) for a set of such strings
SortedStrs(S) == SelectSeq(StrOrder, LAMBDA x : x \in S)

\* ', '.join(names): the names with a ', ' between each two
RECURSIVE JoinComma(_)
JoinComma(names) ==
    IF Len(names) <= 1 THEN names
    ELSE <<Head(names), ", ">> \o JoinComma(Tail(names))

\* Parser.BY_SECTION
BY_SECTION ==
    [bonds |-> "BondInterface", bridges |-> "BridgeInterface",
     ethernets |-> "EthernetInterface", vlans |-> "VLANInterface",
     wifis |-> "WirelessInterface"]

\* the text of a file that yaml.load cannot decode
Undecodable == <<"undecodable", 0>>

\* the same, but any version is accepted
ParseFileAnyVersion(contents) ==
    IF contents = Undecodable THEN Raise(<<"YAMLError", <<>>>>)
    ELSE IF ~IsDict(contents)
    THEN Raise(<<"The contents is not a YAML dictionary", <<>>>>)
    ELSE LET net == DictGet(contents, "network")
         IN  IF net = PyNone
             THEN Raise(<<"No \"network\" top-level element", <<>>>>)
             ELSE IF ~IsDict(net) THEN Raise(<<"AttributeError", <<>>>>)
             ELSE LET ver == DictGet(net, "version")
                      rest == DictDel(net, "version")
                      missing == SortedStrs(Keys(rest) \ DOMAIN BY_SECTION)
                  IN  IF ver = PyNone
                      THEN Raise(<<"No \"network/version\" element", <<>>>>)
                      ELSE IF missing # <<>>
                      THEN Raise(<<"Unsupported section(s)", JoinComma(missing)>>)
                      ELSE rest

\* parse_file(fname), given what the file holds: the dictionary returned or
\* the exception raised.  contents.get('network') and net.get('version') give
\* None for an absent key and for a null value alike; net.get on anything but
\* a dictionary is an AttributeError.
ParseFile(contents) ==
    IF contents = Undecodable THEN Raise(<<"YAMLError", <<>>>>)
    ELSE IF ~IsDict(contents)
    THEN Raise(<<"The contents is not a YAML dictionary", <<>>>>)
    ELSE LET net == DictGet(contents, "network")
         IN  IF net = PyNone
             THEN Raise(<<"No \"network\" top-level element", <<>>>>)
             ELSE IF ~IsDict(net) THEN Raise(<<"AttributeError", <<>>>>)
             ELSE LET ver == DictGet(net, "version")
                      rest == DictDel(net, "version")
                      missing == SortedStrs(Keys(rest) \ DOMAIN BY_SECTION)
                  IN  IF ver = PyNone
                      THEN Raise(<<"No \"network/version\" element", <<>>>>)
                      ELSE IF ver # PyInt(2)
                      THEN Raise(<<"Unsupported format version", ver>>)
                      ELSE IF missing # <<>>
                      THEN Raise(<<"Unsupported section(s)", JoinComma(missing)>>)
                      ELSE rest

\* the loop over the files of _combine_files, from the i-th file on with the
\* accumulator acc: every exception of parse_file and of _combine_dicts
\* becomes a ParseFileException with the name of the file at hand
RECURSIVE MergeLoop(_, _, _, _)
MergeLoop(files, ct, i, acc) ==
    IF i > Len(files)
    THEN [status |-> "ok", raw |-> acc, opened |-> files,
          fname |-> <<>>, inner |-> <<>>, stage |-> "none"]
    ELSE LET net == ParseFile(ct[files[i]])
             sum == CombineDicts(acc, net)
             failed(exc, where) ==
                 [status |-> "ParseFileException", raw |-> acc,
                  opened |-> SubSeq(files, 1, i), fname |-> files[i],
                  inner |-> exc[2], stage |-> where]
         IN  IF IsRaise(net) THEN failed(net, "parse_file")
             ELSE IF IsRaise(sum) THEN failed(sum, "combine")
             ELSE MergeLoop(files, ct, i + 1, sum)

\* an interface object: cls(iface, section, idef)
Interface(cls, iface, section, idef) ==
    [cls |-> cls, name |-> iface, section |-> section, data |-> idef]

\* the same, but an interface that is there already is kept
RECURSIVE DispatchKeepFirst(_, _, _)
DispatchKeepFirst(r, ord, acc) ==
    IF ord = <<>> THEN [status |-> "ok", data |-> acc]
    ELSE LET section == Head(ord)
             ifaces == Get(r, section)
         IN  IF ~IsDict(ifaces) THEN [status |-> "AttributeError", data |-> <<>>]
             ELSE DispatchKeepFirst(r, Tail(ord),
                      acc @@ [n \in Keys(ifaces) |->
                          Interface(BY_SECTION[section], n, section, Get(ifaces, n))])

\* the loop over raw.items() that builds the interfaces, the sections taken
\* in the order ord: .items() of anything but a dictionary is an
\* AttributeError, which nothing catches
RECURSIVE Dispatch(_, _, _)
Dispatch(r, ord, acc) ==
    IF ord = <<>> THEN [status |-> "ok", data |-> acc]
    ELSE LET section == Head(ord)
             ifaces == Get(r, section)
         IN  IF ~IsDict(ifaces) THEN [status |-> "AttributeError", data |-> <<>>]
             ELSE Dispatch(r, Tail(ord),
                      [n \in Keys(ifaces) |->
                          Interface(BY_SECTION[section], n, section, Get(ifaces, n))]
                      @@ acc)

\* the orders in which raw.items() may give the sections
Orders(S) == {o \in [1..Cardinality(S) -> S] : Range(o) = S}

-----------------------------------------------------------------------------
(* Parser.parse *)

\* the same, but the exclusion is compared with the full path
FilesToParseByPath(ds, f, ex) ==
    LET files == FindFiles(ds, f)
    IN  IF ex = PyNone THEN files
        ELSE SelectSeq(files, LAMBDA p : p \notin Range(ex[2]))

\* the files parse(exclude) reads: those of find_files, less the ones whose
\* base name is in exclude
FilesToParse(ds, f, ex) ==
    LET files == FindFiles(ds, f)
    IN  IF ex = PyNone THEN files
        ELSE SelectSeq(files, LAMBDA p : Basename(p) \notin Range(ex[2]))

\* npconfig.NetPlan(data): the container of the interfaces by name
NetPlan(d) == [data |-> d]

\* no container: the call raised, or the program exited
NoPlan == [none |-> TRUE]

\* _combine_files up to the end of its try block: the files that are left,
\* merged one after the other
CombineFiles(ds, f, ct, ex) == MergeLoop(FilesToParse(ds, f, ex), ct, 1, EmptyDict)

\* the rest of _combine_files and the return of parse, given the outcome m of
\* the merge and the order ord in which raw.items() gives the sections
Build(m, ord) ==
    LET d == Dispatch(m.raw, ord, <<>>)
    IN  IF m.status # "ok" THEN [m EXCEPT !.raw = PyNone] @@ [result |-> NoPlan]
        ELSE IF d.status # "ok"
        THEN [m EXCEPT !.status = d.status, !.stage = "dispatch"] @@ [result |-> NoPlan]
        ELSE m @@ [result |-> NetPlan(d.data)]

-----------------------------------------------------------------------------
(* The configuration files parse is applied to *)

MaxFiles == 2
MaxExclude == 1

\* '/l' and '/e', the later one overriding the earlier one
LoadDirs == <<(<<47, 108>>), (<<47, 101>>)>>

\* 'a.yaml' and 'b.yaml'
LoadNames == {<<97>> \o YamlSuffix, <<98>> \o YamlSuffix}

Network(v, sections) == PyDict("network" :> PyDict(v @@ sections))
V2 == "version" :> PyInt(2)

DocEth ==
    Network(V2, "ethernets" :> PyDict("eth0" :> PyDict("addresses" :> PyList(<<PyInt(1)>>))))
DocEthScalar ==
    Network(V2, "ethernets" :> PyDict("eth0" :> PyDict("addresses" :> PyInt(2))))
DocVlan ==
    Network(V2, "vlans" :> PyDict("vlan10" :>
        PyDict(("id" :> PyInt(1)) @@ ("link" :> PyStr("eth0")))))
DocVlanId ==
    Network(V2, "vlans" :> PyDict("vlan10" :> PyDict("id" :> PyInt(2))))
DocBridge ==
    Network(V2, "bridges" :> PyDict("eth0" :>
        PyDict("interfaces" :> PyList(<<PyStr("vlan10")>>))))
DocV1 ==
    Network("version" :> PyInt(1), "ethernets" :> PyDict("eth0" :> EmptyDict))
DocNoVersion ==
    Network(<<>>, "tunnels" :> PyDict("eth0" :> EmptyDict))
DocUnknown ==
    Network(V2, ("ethernets" :> PyDict("wlan0" :> EmptyDict))
                    @@ ("zones" :> EmptyDict) @@ ("tunnels" :> EmptyDict))
DocSectionList ==
    Network(V2, "ethernets" :> PyList(<<PyStr("eth0")>>))
DocNotDict == PyList(<<PyStr("eth0")>>)
DocNoNetwork == PyDict("version" :> PyInt(2))
DocNetworkList == PyDict("network" :> PyList(<<PyStr("eth0")>>))

LoadDocs ==
    {DocEth, DocEthScalar, DocVlan, DocVlanId, DocBridge, DocV1, DocNoVersion,
     DocUnknown, DocSectionList, DocNotDict, DocNoNetwork, DocNetworkList, Undecodable}

\* the places a file may be at
LoadSlots == {Join(LoadDirs[i], n) : i \in DOMAIN LoadDirs, n \in LoadNames}

\* what the files hold: at most MaxFiles files, each with one document
LoadContents ==
    UNION {[S -> LoadDocs] : S \in {T \in SUBSET LoadSlots : Cardinality(T) <= MaxFiles}}

Excludes == {PyNone} \cup {PyList(s) : s \in SeqsUpTo(LoadNames, MaxExclude)}

IdleParse ==
    /\ content = <<>>
    /\ exclude = PyNone
    /\ opened = <<>>
    /\ raw = PyNone
    /\ order = <<>>
    /\ result = NoPlan
    /\ status = "none"
    /\ errfile = <<>>
    /\ errinner = <<>>
    /\ errstage = "none"
    /\ ppc = "idle"

InitParse ==
    /\ content \in LoadContents
    /\ dirs = LoadDirs
    /\ fs = [p \in Range(LoadDirs) |-> "dir"] @@ [p \in DOMAIN content |-> "file"]
    /\ found = <<>>
    /\ fpc = "idle"
    /\ exclude = PyNone
    /\ opened = <<>>
    /\ raw = PyNone
    /\ order = <<>>
    /\ result = NoPlan
    /\ status = "none"
    /\ errfile = <<>>
    /\ errinner = <<>>
    /\ errstage = "none"
    /\ ppc = "call"

\* the sections of the merged document m
MergedSections(m) == IF m.status = "ok" THEN Keys(m.raw) ELSE {}

\* Parser(dirs).parse(exclude)
ParseCall ==
    /\ ppc = "call"
    /\ \E ex \in Excludes :
          LET m == CombineFiles(dirs, fs, content, ex)
          IN  \E ord \in Orders(MergedSections(m)) :
                LET r == Build(m, ord)
                IN  /\ exclude' = ex
                    /\ order' = ord
                    /\ opened' = r.opened
                    /\ raw' = r.raw
                    /\ result' = r.result
                    /\ status' = r.status
                    /\ errfile' = r.fname
                    /\ errinner' = r.inner
                    /\ errstage' = r.stage
    /\ ppc' = "done"
    /\ UNCHANGED <<content, findVars>>

-----------------------------------------------------------------------------
(* The interfaces and the container: netplan/interface.py, netplan/config.py *)

\* the names an interface refers to: the members of a bond or a bridge, the
\* link of a VLAN, nothing for an Ethernet or a wireless interface
References(i) ==
    IF i.cls \in {"BondInterface", "BridgeInterface"}
    THEN IF Has(i.data, "interfaces") /\ IsList(Get(i.data, "interfaces"))
         THEN {x[2] : x \in Range(Get(i.data, "interfaces")[2])}
         ELSE {}
    ELSE IF i.cls = "VLANInterface"
    THEN IF Has(i.data, "link") THEN {Get(i.data, "link")[2]} ELSE {}
    ELSE {}

\* a lookup of a name the container does not have
KeyError == [raise |-> "KeyError"]
Failed(r) == "raise" \in DOMAIN r

\* the closure over a worklist: todo holds the names found and not yet
\* visited, seen the names found so far, visits the names in the order of
\* their visits
RECURSIVE Closure(_, _, _, _)
Closure(p, todo, seen, visits) ==
    IF todo = {} THEN [names |-> seen, visits |-> visits]
    ELSE LET n == CHOOSE x \in todo : TRUE
             refs == (References(p.data[n]) \cap DOMAIN p.data) \ seen
         IN  Closure(p, (todo \ {n}) \cup refs, seen \cup refs, Append(visits, n))

\* NetPlan.get_all_interfaces(ifaces): the container of the interfaces
\* named and of all those they lead to
GetAllInterfaces(p, ifaces) ==
    IF ~(Range(ifaces) \subseteq DOMAIN p.data) THEN KeyError
    ELSE LET c == Closure(p, Range(ifaces), Range(ifaces), <<>>)
         IN  NetPlan([n \in c.names |-> p.data[n]])

\* NetPlan.get_physical_interfaces(ifaces): of those, the ones of a kind
\* that refers to nothing
GetPhysicalInterfaces(p, ifaces) ==
    LET all == GetAllInterfaces(p, ifaces)
    IN  IF Failed(all) THEN all
        ELSE NetPlan([n \in {x \in DOMAIN all.data :
                                all.data[x].cls \in {"EthernetInterface", "WirelessInterface"}}
                        |-> all.data[n]])

-----------------------------------------------------------------------------
(* bin/netplan-parser.py *)

\* the same, but all the names asked for are reported
ParseArgsReportAll(p, args) ==
    IF args # <<>>
    THEN IF SortedStrs(Range(args) \ DOMAIN p.data) # <<>>
         THEN [status |-> "exit", ifaces |-> <<>>,
               message |-> <<"No netplan data for", JoinComma(SortedStrs(Range(args)))>>]
         ELSE [status |-> "ok", ifaces |-> SortedStrs(Range(args)), message |-> <<>>]
    ELSE [status |-> "ok", ifaces |-> SortedStrs(DOMAIN p.data), message |-> <<>>]

\* parse_args(args) once the configuration p is parsed: the names to look
\* at, or the message the program exits with.  (sorted(args.interfaces)
\* keeps a name given twice; every use of the names is as a set.)
ParseArgs(p, args) ==
    IF args # <<>>
    THEN LET missing == SortedStrs(Range(args) \ DOMAIN p.data)
         IN  IF missing # <<>>
             THEN [status |-> "exit", ifaces |-> <<>>,
                   message |-> <<"No netplan data for", JoinComma(missing)>>]
             ELSE [status |-> "ok", ifaces |-> SortedStrs(Range(args)), message |-> <<>>]
    ELSE [status |-> "ok", ifaces |-> SortedStrs(DOMAIN p.data), message |-> <<>>]

\* what a command ends with: the container selected and the number of
\* closures computed, or the message of the exit
Selected(sel, n) ==
    [status |-> "ok", selected |-> sel, message |-> <<>>, closures |-> n]
Exited(msg) ==
    [status |-> "exit", selected |-> NoPlan, message |-> msg, closures |-> 0]
Raised(exc, n) ==
    [status |-> exc.raise, selected |-> NoPlan, message |-> <<>>, closures |-> n]

\* cmd_show(args)
CmdShow(p, args) ==
    LET a == ParseArgs(p, args)
    IN  IF a.status = "exit" THEN Exited(a.message)
        ELSE Selected(NetPlan([n \in Range(a.ifaces) |-> p.data[n]]), 0)

\* the same, but only the interfaces named are selected
CmdRelatedNamedOnly(p, args) ==
    LET a == ParseArgs(p, args)
    IN  IF a.status = "exit" THEN Exited(a.message)
        ELSE Selected(NetPlan([n \in Range(a.ifaces) |-> p.data[n]]), 1)

\* cmd_related(args)
CmdRelated(p, args) ==
    LET a == ParseArgs(p, args)
        sel == GetAllInterfaces(p, a.ifaces)
    IN  IF a.status = "exit" THEN Exited(a.message)
        ELSE IF Failed(sel) THEN Raised(sel, 1)
        ELSE Selected(sel, 1)

\* the same, but with all the related interfaces
CmdPhysicalAll(p, args) ==
    LET a == ParseArgs(p, args)
        sel == GetAllInterfaces(p, a.ifaces)
    IN  IF a.status = "exit" THEN Exited(a.message)
        ELSE IF Failed(sel) THEN Raised(sel, 1)
        ELSE Selected(NetPlan(sel.data), 1)

\* cmd_physical(args)
CmdPhysical(p, args) ==
    LET a == ParseArgs(p, args)
        sel == GetPhysicalInterfaces(p, a.ifaces)
    IN  IF a.status = "exit" THEN Exited(a.message)
        ELSE IF Failed(sel) THEN Raised(sel, 1)
        ELSE Selected(sel, 1)

-----------------------------------------------------------------------------
(* The configurations the commands are applied to *)

MaxMembers == 2
MaxArgs == 2

QueryNames == {"br0", "eth0", "vlan10"}

\* what an interface may refer to: the names above and one that is never
\* defined
QueryRefs == QueryNames \cup {"nope"}

\* what may be asked for on the command line
QueryArgNames == {"eth0", "vlan10", "nope"}

Leaf(name, section) == Interface(BY_SECTION[section], name, section, EmptyDict)
Group(name, section, members) ==
    Interface(BY_SECTION[section], name, section,
        PyDict("interfaces" :> PyList([i \in 1..Len(SortedStrs(members))
                                        |-> PyStr(SortedStrs(members)[i])])))
Vlan(name, link) ==
    Interface(BY_SECTION["vlans"], name, "vlans",
        PyDict(("id" :> PyInt(1)) @@ ("link" :> PyStr(link))))

MemberSets == {m \in SUBSET QueryRefs : Cardinality(m) <= MaxMembers}

\* what each name may be defined as
QueryChoices(name) ==
    IF name = "eth0"
    THEN {Leaf(name, "ethernets"), Leaf(name, "wifis")}
             \cup {Group(name, "bonds", m) : m \in MemberSets}
    ELSE IF name = "br0"
    THEN {Leaf(name, "ethernets")}
             \cup {Group(name, s, m) : s \in {"bonds", "bridges"}, m \in MemberSets}
    ELSE {Leaf(name, "ethernets")} \cup {Vlan(name, l) : l \in QueryRefs}

\* the names above in some order
QueryNameSeq == SortedStrs(QueryNames)

\* the containers that define some of the names, each as one of its choices
RECURSIVE PlansOver(_)
PlansOver(names) ==
    IF names = <<>> THEN {<<>>}
    ELSE LET rest == PlansOver(Tail(names))
         IN  rest \cup {(Head(names) :> c) @@ r : c \in QueryChoices(Head(names)), r \in rest}

QueryPlans == {NetPlan(d) : d \in PlansOver(QueryNameSeq)}

ArgLists == SeqsUpTo(QueryArgNames, MaxArgs)

IdleQuery ==
    /\ plan = NoPlan
    /\ qcmd = "none"
    /\ qargs = <<>>
    /\ qstatus = "none"
    /\ qmessage = <<>>
    /\ qselected = NoPlan
    /\ closures = 0
    /\ qpc = "idle"

InitQuery ==
    /\ plan \in QueryPlans
    /\ qcmd = "none"
    /\ qargs = <<>>
    /\ qstatus = "none"
    /\ qmessage = <<>>
    /\ qselected = NoPlan
    /\ closures = 0
    /\ qpc = "call"

\* one run of a command with its outcome r
Ran(cmd, args, r) ==
    /\ qpc = "call"
    /\ qcmd' = cmd
    /\ qargs' = args
    /\ qstatus' = r.status
    /\ qmessage' = r.message
    /\ qselected' = r.selected
    /\ closures' = r.closures
    /\ qpc' = "done"
    /\ UNCHANGED plan

\* netplan-parser show [interface...]
Show == \E args \in ArgLists : Ran("show", args, CmdShow(plan, args))

\* netplan-parser related interface...
Related ==
    \E args \in ArgLists \ {<<>>} : Ran("related", args, CmdRelated(plan, args))

\* netplan-parser physical interface...
Physical ==
    \E args \in ArgLists \ {<<>>} : Ran("physical", args, CmdPhysical(plan, args))

-----------------------------------------------------------------------------
(* The specifications *)

NextMerge == CombineDictsCall /\ UNCHANGED <<findVars, parseVars, queryVars>>
StartMerge == InitMerge /\ IdleFind /\ IdleParse /\ IdleQuery
SpecMerge == StartMerge /\ [][NextMerge]_vars

NextFind == FindFilesCall /\ UNCHANGED <<mergeVars, parseVars, queryVars>>
StartFind == IdleMerge /\ InitFind /\ IdleParse /\ IdleQuery
SpecFind == StartFind /\ [][NextFind]_vars

NextParse == ParseCall /\ UNCHANGED <<mergeVars, queryVars>>
StartParse == IdleMerge /\ InitParse /\ IdleQuery
SpecParse == StartParse /\ [][NextParse]_vars

NextQuery ==
    \/ Show /\ UNCHANGED <<mergeVars, findVars, parseVars>>
    \/ Related /\ UNCHANGED <<mergeVars, findVars, parseVars>>
    \/ Physical /\ UNCHANGED <<mergeVars, findVars, parseVars>>
StartQuery == IdleMerge /\ IdleFind /\ IdleParse /\ InitQuery
SpecQuery == StartQuery /\ [][NextQuery]_vars

-----------------------------------------------------------------------------
(* What the claims say *)

\* the names a ', '.join lists: every other element of it
Listed(joined) == {joined[i] : i \in {j \in DOMAIN joined : j % 2 = 1}}
ListsExactly(joined, S) ==
    /\ Listed(joined) = S
    /\ Len(joined) = 2 * Cardinality(S) - 1

\* r is what the claim C1 says of merging the dictionary b into the
\* dictionary a
RECURSIVE MergedAsClaimed(_, _, _)
MergedAsClaimed(a, b, r) ==
    /\ IsDict(r)
    /\ Keys(r) = Keys(a) \cup Keys(b)
    /\ \A k \in Keys(a) \ Keys(b) : Get(r, k) = Get(a, k)
    /\ \A k \in Keys(b) \ Keys(a) : Get(r, k) = Get(b, k)
    /\ \A k \in Keys(a) \cap Keys(b) :
          /\ IsScalar(Get(a, k)) /\ IsScalar(Get(b, k)) => Get(r, k) = Get(b, k)
          /\ IsList(Get(a, k)) /\ IsList(Get(b, k)) =>
                /\ IsList(Get(r, k))
                /\ Len(Get(r, k)[2]) = Len(Get(a, k)[2]) + Len(Get(b, k)[2])
                /\ \A i \in DOMAIN Get(a, k)[2] : Get(r, k)[2][i] = Get(a, k)[2][i]
                /\ \A i \in DOMAIN Get(b, k)[2] :
                      Get(r, k)[2][Len(Get(a, k)[2]) + i] = Get(b, k)[2][i]
          /\ IsDict(Get(a, k)) /\ IsDict(Get(b, k)) =>
                MergedAsClaimed(Get(a, k), Get(b, k), Get(r, k))

\* every key the two dictionaries share, at every level, holds values of
\* the same shape in both
RECURSIVE SameShapes(_, _)
SameShapes(a, b) ==
    \A k \in Keys(a) \cap Keys(b) :
        \/ IsScalar(Get(a, k)) /\ IsScalar(Get(b, k))
        \/ IsList(Get(a, k)) /\ IsList(Get(b, k))
        \/ IsDict(Get(a, k)) /\ IsDict(Get(b, k)) /\ SameShapes(Get(a, k), Get(b, k))

\* C1: _combine_dicts(cur, new) on two documents whose shared keys agree in
\* shape completes, and whenever it completes, at every nesting level: a key
\* only in cur keeps its value, a key only in new is copied in, a scalar in
\* both ends with the value of new, a sequence in both ends with the
\* elements of cur followed by those of new in their order, and a mapping in
\* both is merged by the same rules.
CombineDictsRules ==
    mpc = "done" =>
        /\ SameShapes(View(heap0, cur), View(heap0, new)) => raised = "none"
        /\ raised = "none" =>
              MergedAsClaimed(View(heap0, cur), View(heap0, new), View(heap, cur))

\* no object of the heap h is referred to from two places
NoAliases(h) ==
    \A x, y \in DOMAIN h :
        IsDict(h[x]) /\ IsDict(h[y]) =>
            \A j \in Keys(h[x]), k \in Keys(h[y]) :
                IsRef(Get(h[x], j)) /\ Get(h[x], j) = Get(h[y], k) => x = y /\ j = k

\* on documents without aliases, merging in place gives what merging the
\* values gives, and raises when that does; new is left as it was
CombineDictsByValue ==
    mpc = "done" /\ NoAliases(heap0) =>
        LET sum == CombineDicts(View(heap0, cur), View(heap0, new))
        IN  /\ raised # "none" <=> IsRaise(sum)
            /\ raised = "none" => View(heap, cur) = sum /\ View(heap, new) = View(heap0, new)

\* the directories of dirs, by position, that have the regular file n
HoldersOf(n) ==
    {i \in DOMAIN dirs : IsDir(fs, dirs[i]) /\ IsFile(fs, Join(dirs[i], n))}

\* the base names find_files is to return a path for
EligibleNames ==
    {n \in {Basename(p) : p \in DOMAIN fs} : EndsWith(n, YamlSuffix) /\ HoldersOf(n) # {}}

\* C2: find_files() returns exactly one path per base name that ends in
\* '.yaml' and is a regular file in an existing listed directory, the path
\* being the one in the latest such directory, in the order of the base
\* names; directories that do not exist are skipped.
FindFilesContract ==
    fpc = "done" =>
        /\ {Basename(p) : p \in Range(found)} = EligibleNames
        /\ Len(found) = Cardinality(EligibleNames)
        /\ \A k \in DOMAIN found :
              LET n == Basename(found[k])
                  last == CHOOSE i \in HoldersOf(n) : \A j \in HoldersOf(n) : j <= i
              IN  found[k] = Join(dirs[last], n)
        /\ \A j, k \in DOMAIN found :
              j < k => LexLess(Basename(found[j]), Basename(found[k]))

\* 'a.yaml' is in both directories and 'b.yaml' in the first one only: the
\* second directory's 'a.yaml' comes first, though its path sorts last
FindFilesOverride ==
    /\ fpc = "done"
    /\ dirs = <<(<<47, 101>>), (<<47, 108>>)>>
    /\ IsFile(fs, <<47, 101, 47>> \o <<97>> \o YamlSuffix)
    /\ IsFile(fs, <<47, 101, 47>> \o <<98>> \o YamlSuffix)
    /\ found = << <<47, 108, 47>> \o <<97>> \o YamlSuffix,
                 <<47, 101, 47>> \o <<98>> \o YamlSuffix >>

\* the 'network' mapping of a document, where it has one
HasNetwork(doc) ==
    /\ doc # Undecodable
    /\ IsDict(doc)
    /\ Has(doc, "network")
    /\ IsDict(Get(doc, "network"))

FailedOn(p, reason) ==
    /\ status = "ParseFileException"
    /\ errfile = p
    /\ errstage = "parse_file"
    /\ errinner[1] = reason

\* C3: a file read whose 'network/version' is absent fails the load with
\* an error naming it, one whose version is not 2 likewise with another
\* reason, and one of version 2 with keys under 'network' other than the
\* five sections likewise, the error listing exactly those keys.
ParseFileValidation ==
    ppc = "done" =>
        \A k \in DOMAIN opened :
            HasNetwork(content[opened[k]]) =>
                LET net == Get(content[opened[k]], "network")
                    unknown == Keys(net) \ {"version", "bonds", "bridges", "ethernets",
                                            "vlans", "wifis"}
                IN  /\ "version" \notin Keys(net) =>
                          FailedOn(opened[k], "No \"network/version\" element")
                    /\ "version" \in Keys(net) /\ Get(net, "version") # PyInt(2) =>
                          /\ FailedOn(opened[k], "Unsupported format version")
                          /\ errinner[2] = Get(net, "version")
                    /\ "version" \in Keys(net) /\ Get(net, "version") = PyInt(2)
                            /\ unknown # {} =>
                          /\ FailedOn(opened[k], "Unsupported section(s)")
                          /\ ListsExactly(errinner[2], unknown)

\* the second file read has two unknown sections and a known one
ParseFileUnknownSections ==
    /\ ppc = "done"
    /\ Len(opened) = 2
    /\ content[opened[2]] = DocUnknown
    /\ status = "ParseFileException"
    /\ errfile = opened[2]
    /\ errinner = <<"Unsupported section(s)", <<"tunnels", ", ", "zones">> >>

\* the names parse(exclude) is to leave out
Excluded == IF exclude = PyNone THEN {} ELSE Range(exclude[2])

\* the files parse(exclude) is to read, in order
ToRead == SelectSeq(FindFiles(dirs, fs), LAMBDA p : Basename(p) \notin Excluded)

\* C4: parse() either reads, checks and merges every file and returns a
\* container, or fails with a ParseFileException that carries the path of a
\* file it read and returns no container.
ParseAllOrNothing ==
    ppc = "done" =>
        \/ /\ status = "ok"
           /\ opened = ToRead
           /\ result # NoPlan
        \/ /\ status = "ParseFileException"
           /\ errfile \in Range(opened)
           /\ result = NoPlan

\* C8: the files parse(exclude) opens are the ones find_files located whose
\* base name is not excluded, in that order, up to the first one that fails;
\* no excluded file is opened, whatever it holds and wherever it is.
ParseExclusion ==
    ppc = "done" =>
        /\ LET files == ToRead
           IN  \E k \in 0..Len(files) :
                  /\ opened = SubSeq(files, 1, k)
                  /\ k < Len(files) => status = "ParseFileException"
        /\ status = "ParseFileException" => errfile = opened[Len(opened)]
        /\ \A p \in DOMAIN content : Basename(p) \in Excluded => p \notin Range(opened)

\* 'a.yaml' is excluded and is in both directories, the copy that
\* find_files locates being of version 1: nothing is read, the load succeeds
ParseExcludedBadFile ==
    /\ ppc = "done"
    /\ exclude = PyList(<< <<97>> \o YamlSuffix >>)
    /\ DOMAIN content = {Join(LoadDirs[1], <<97>> \o YamlSuffix),
                         Join(LoadDirs[2], <<97>> \o YamlSuffix)}
    /\ content[Join(LoadDirs[1], <<97>> \o YamlSuffix)] = DocEth
    /\ content[Join(LoadDirs[2], <<97>> \o YamlSuffix)] = DocV1
    /\ opened = <<>>
    /\ status = "ok"
    /\ result = NetPlan(<<>>)

\* C9: when every file read passes parse_file on its own, merging them
\* raises nothing.
MergeNeverFails ==
    ppc = "done" /\ (\A p \in Range(opened) : ~IsRaise(ParseFile(content[p])))
        => errstage # "combine"

\* the sections of the merged document that define the interface n
SectionsOf(n) == {s \in Keys(raw) : IsDict(Get(raw, s)) /\ n \in Keys(Get(raw, s))}

\* C10, as amended: after a successful load every interface name of the
\* merged document maps to one interface object, built from the name, a
\* section that defines it and the merged definition under that section,
\* unchanged; when several sections define the name, it is the one the
\* dispatch loop takes last, and the other definitions are dropped.
InterfacesLastSectionWins ==
    ppc = "done" /\ status = "ok" =>
        /\ DOMAIN result.data = UNION {Keys(Get(raw, s)) : s \in Keys(raw)}
        /\ \A n \in DOMAIN result.data :
              LET at == {i \in DOMAIN order : order[i] \in SectionsOf(n)}
                  s == order[CHOOSE i \in at : \A j \in at : j <= i]
              IN  result.data[n] = Interface(BY_SECTION[s], n, s, Get(Get(raw, s), n))

\* 'eth0' is an Ethernet interface in one file and a bridge in the other,
\* and the bridges are dispatched last
InterfacesTwoSections ==
    /\ ppc = "done"
    /\ status = "ok"
    /\ SectionsOf("eth0") = {"ethernets", "bridges"}
    /\ order = <<"ethernets", "bridges">>
    /\ result.data["eth0"].section = "bridges"
    /\ Keys(result.data["eth0"].data) = {"interfaces"}

\* C10: after a successful load every interface name maps to one interface
\* object with that name, and an interface that several sections define
\* carries the definitions of all of them.
InterfacesMergedAcrossSections ==
    ppc = "done" /\ status = "ok" =>
        \A n \in DOMAIN result.data :
            /\ result.data[n].name = n
            /\ \A s \in SectionsOf(n) :
                  /\ Keys(Get(Get(raw, s), n)) \subseteq Keys(result.data[n].data)
                  /\ \A k \in Keys(Get(Get(raw, s), n)) :
                        Get(result.data[n].data, k) = Get(Get(Get(raw, s), n), k)

\* the names reached from the names S by references, dangling ones dropped
Reach(p, S) ==
    LET N == DOMAIN p.data
        paths == UNION {[1..k -> N] : k \in 1..Cardinality(N)}
    IN  {n \in N : \E w \in paths :
            /\ w[1] \in S
            /\ w[Len(w)] = n
            /\ \A i \in 1..(Len(w) - 1) : w[i + 1] \in References(p.data[w[i]])}

\* C5: get_all_interfaces(seeds) returns exactly the interfaces of the
\* container reached from the seeds by references, cycles or not, each
\* visited once and as it is in the container; a name referred to and not
\* in the container is not in the result.
RelatedIsClosure ==
    qpc = "done" /\ qcmd = "related" /\ Range(qargs) \subseteq DOMAIN plan.data =>
        /\ qstatus = "ok"
        /\ DOMAIN qselected.data = Reach(plan, Range(qargs))
        /\ DOMAIN qselected.data \subseteq DOMAIN plan.data
        /\ \A n \in DOMAIN qselected.data : qselected.data[n] = plan.data[n]
        /\ LET v == Closure(plan, Range(qargs), Range(qargs), <<>>).visits
           IN  \A i, j \in DOMAIN v : v[i] = v[j] => i = j

\* 'eth0' and 'br0' refer to each other, and 'eth0' to a name that is not
\* defined as well
RelatedOnCycle ==
    /\ qpc = "done"
    /\ qcmd = "related"
    /\ qargs = <<"eth0">>
    /\ DOMAIN plan.data = {"br0", "eth0"}
    /\ References(plan.data["eth0"]) = {"br0", "nope"}
    /\ References(plan.data["br0"]) = {"eth0"}
    /\ qstatus = "ok"
    /\ DOMAIN qselected.data = {"br0", "eth0"}

\* C6: for seeds that are all in the container, get_all_interfaces has
\* every seed, and get_physical_interfaces has only interfaces that
\* get_all_interfaces has and that are Ethernet or wireless ones.
PhysicalIsLeaves ==
    qpc = "done" /\ Range(qargs) \subseteq DOMAIN plan.data /\ qargs # <<>> =>
        /\ qcmd = "related" => Range(qargs) \subseteq DOMAIN qselected.data
        /\ qcmd = "physical" =>
              /\ qstatus = "ok"
              /\ DOMAIN qselected.data \subseteq DOMAIN GetAllInterfaces(plan, qargs).data
              /\ \A n \in DOMAIN qselected.data :
                    /\ qselected.data[n].section \in {"ethernets", "wifis"}
                    /\ qselected.data[n].cls \notin
                           {"BondInterface", "BridgeInterface", "VLANInterface"}
                    /\ References(qselected.data[n]) = {}

\* the VLAN 'vlan10' is on the bridge 'br0', which has 'eth0': only 'eth0'
\* is physical
PhysicalOfVlan ==
    /\ qpc = "done"
    /\ qcmd = "physical"
    /\ qargs = <<"vlan10">>
    /\ DOMAIN plan.data = {"br0", "eth0", "vlan10"}
    /\ plan.data["vlan10"] = Vlan("vlan10", "br0")
    /\ plan.data["br0"] = Group("br0", "bridges", {"eth0", "nope"})
    /\ plan.data["eth0"] = Leaf("eth0", "ethernets")
    /\ qstatus = "ok"
    /\ DOMAIN qselected.data = {"eth0"}

\* C7: a command given names fails if and only if one of them is not in
\* the container, with a message that lists exactly the names given that
\* are not, before any closure is computed, and the container stays as it
\* is.
QueryMissingNames ==
    /\ [](qpc = "done" =>
            LET missing == Range(qargs) \ DOMAIN plan.data
            IN  /\ qstatus = "exit" <=> missing # {}
                /\ qstatus = "exit" =>
                      /\ qmessage[1] = "No netplan data for"
                      /\ ListsExactly(qmessage[2], missing)
                      /\ closures = 0
                      /\ qselected = NoPlan)
    /\ [][qstatus' = "exit" => plan' = plan]_vars

\* 'eth0' is defined and asked for, 'nope' is is asked for and is not
QueryOneMissing ==
    /\ qpc = "done"
    /\ qcmd = "related"
    /\ qargs = <<"nope", "eth0">>
    /\ "eth0" \in DOMAIN plan.data
    /\ qstatus = "exit"
    /\ qmessage = <<"No netplan data for", <<"nope">> >>

====
